---- MODULE Spec2Model ----
(***************************************************************************)
(* Model of agent-rag: the Weaviate index builder of src/indexing.py and   *)
(* the FastAPI endpoints of api/main.py.                                   *)
(*                                                                         *)
(* The specifications share the variables:                                 *)
(*   SpecStore  create_document_index / delete_document_collection calls   *)
(*              of concurrent callers                                      *)
(*   SpecSeq    create_document_index calls made one after the other       *)
(*   SpecRace   create_document_index calls of concurrent callers          *)
(*   SpecApi    the /build-index and /get-index-names endpoints            *)
(*   SpecChat   /query and /chat requests and their transcript files       *)
(*   SpecLocal  build_sentence_window_index / build_automerging_index      *)
(*   SpecRetr   the two query engines of indexing.py                       *)
(***************************************************************************)
EXTENDS Integers, Sequences, FiniteSets, TLC

\* ------------------------------------------------------------------ bounds
MaxBuilds == 3        \* build calls (each gets a fresh batch id) per behaviour
ChunksPerBuild == 2   \* nodes the splitter produces for one build
MaxOpen == 1          \* open clients one caller may hold before it stops calling
MaxFrags == 2         \* fragments the model streams for one answer
MaxClock == 1         \* ticks of the clock get_timestamp reads
MaxScore == 1         \* similarity scores are 0..MaxScore
MaxK == 3             \* similarity_top_k is 1..MaxK

Procs == {1, 2}
Names == {"Docs", "Notes"}
Inputs == {"files", "empty", "missing"}   \* input_files: readable, [], unreadable

\* ------------------------------------------------------------- variables
VARIABLES
    \* vector store and the callers of indexing.py
    collections,  \* name -> [exists, chunks, creator]: the Weaviate collections
    pc,           \* caller -> position inside the call it is making
    cname,        \* caller -> index_name of the call
    cinput,       \* caller -> input_files of the call
    cbid,         \* caller -> batch id of the call (0: none)
    open,         \* caller -> number of clients it opened and has not closed
    mut,          \* caller -> history: the call has mutated a collection
    err,          \* caller -> history: the exception the last call raised
    nextBid,      \* next fresh batch id
    lastRet,      \* history: name -> [bid, ok] of its last finished build call
    lastOk,       \* history: name -> batch id of its last build that returned
    okCount,      \* history: name -> number of builds that returned normally
    serial,       \* TRUE: callers are run one after the other
    resp,         \* last response of /build-index or /get-index-names
    \* /query and /chat
    clock, rq, files,
    \* local persisted indexes
    dirs, last,
    \* retrieval
    rin, rout

storeVars == <<collections, pc, cname, cinput, cbid, open, mut, err, nextBid,
               lastRet, lastOk, okCount, serial, resp>>
chatVars  == <<clock, rq, files>>
localVars == <<dirs, last>>
retrVars  == <<rin, rout>>
vars == <<storeVars, chatVars, localVars, retrVars>>

\* what the actions of one part leave alone
storeRest == <<chatVars, localVars, retrVars>>
chatRest  == <<storeVars, localVars, retrVars>>
localRest == <<storeVars, chatVars, retrVars>>
retrRest  == <<storeVars, chatVars, localVars>>

\* ============================================================ vector store
NoColl == [exists |-> FALSE, chunks |-> {}, creator |-> 0]

\* the nodes splitter.get_nodes_from_documents yields for batch b
NodesOf(b) == {<<b, i>> : i \in 1..ChunksPerBuild}

\* client.collections.exists(index_name)
CollExists(colls, n) == colls[n].exists

\* client.collections.delete(index_name): silent when the collection is absent
DeleteColl(colls, n) == [colls EXCEPT ![n] = NoColl]

\* client.collections.create(name=index_name), on an absent collection
CreateColl(colls, n, b) ==
    [colls EXCEPT ![n] = [exists |-> TRUE, chunks |-> {}, creator |-> b]]

\* WeaviateVectorStore(index_name) + VectorStoreIndex(nodes): the store is
\* addressed by NAME; the vector store creates the schema when it is absent,
\* then the first j nodes of the batch are inserted.
WriteNodes(colls, n, b, j) ==
    LET c == IF colls[n].exists THEN colls[n]
             ELSE [exists |-> TRUE, chunks |-> {}, creator |-> b]
    IN [colls EXCEPT ![n] = [c EXCEPT !.chunks = @ \cup {<<b, i>> : i \in 1..j}]]

\* SimpleDirectoryReader(input_files=...).load_data(): raises for an empty
\* list ("Must provide either input_dir or input_files") or a missing file.
LoadError(inp) ==
    CASE inp = "empty"   -> "EmptyInput"
      [] inp = "missing" -> "FileNotFound"
      [] OTHER           -> "none"

NoResp == [endpoint |-> "none", status |-> 0, detail |-> "none", itype |-> "none",
           files |-> "none", builder |-> "none", mutated |-> FALSE, names |-> {}]

StoreIdle == \A p \in Procs : pc[p] = "idle"

InitChat  == clock = 0 /\ rq = <<>> /\ files = {}
InitLocal == dirs = <<>> /\ last = <<>>
InitRetr  == rin = <<>> /\ rout = <<>>

InitStoreVars ==
    /\ collections = [n \in Names |-> NoColl]
    /\ pc = [p \in Procs |-> "idle"]
    /\ cname = [p \in Procs |-> "Docs"]
    /\ cinput = [p \in Procs |-> "files"]
    /\ cbid = [p \in Procs |-> 0]
    /\ open = [p \in Procs |-> 0]
    /\ mut = [p \in Procs |-> FALSE]
    /\ err = [p \in Procs |-> "none"]
    /\ nextBid = 1
    /\ lastRet = [n \in Names |-> [bid |-> 0, ok |-> FALSE]]
    /\ lastOk = [n \in Names |-> 0]
    /\ okCount = [n \in Names |-> 0]
    /\ resp = NoResp

\* ---- create_document_index(input_files, index_name): one action per line
\* that can raise or that touches the store.
Raise(p, e) ==
    \* an exception inside the try block: control goes to the finally clause
    /\ err' = [err EXCEPT ![p] = e]
    /\ pc' = [pc EXCEPT ![p] = "finally"]

\* history of the builds of name n: the build with batch id b ended with e
Returned(n, b, e) ==
    /\ lastRet' = [lastRet EXCEPT ![n] = [bid |-> b, ok |-> e = "none"]]
    /\ lastOk' = IF e = "none" THEN [lastOk EXCEPT ![n] = b] ELSE lastOk
    /\ okCount' = IF e = "none" THEN [okCount EXCEPT ![n] = @ + 1] ELSE okCount

\* the frame of a call is gone when the call ends
Forget(p) ==
    /\ cname' = [cname EXCEPT ![p] = "Docs"]
    /\ cinput' = [cinput EXCEPT ![p] = "files"]
    /\ cbid' = [cbid EXCEPT ![p] = 0]
    /\ mut' = [mut EXCEPT ![p] = FALSE]
    /\ err' = [err EXCEPT ![p] = "none"]

CallCreate(p, n, inp) ==
    /\ pc[p] = "idle"
    /\ serial => StoreIdle
    /\ nextBid <= MaxBuilds
    /\ open[p] < MaxOpen
    /\ pc' = [pc EXCEPT ![p] = "connect"]
    /\ cname' = [cname EXCEPT ![p] = n]
    /\ cinput' = [cinput EXCEPT ![p] = inp]
    /\ cbid' = [cbid EXCEPT ![p] = nextBid]
    /\ nextBid' = nextBid + 1
    /\ mut' = [mut EXCEPT ![p] = FALSE]
    /\ err' = [err EXCEPT ![p] = "none"]
    /\ UNCHANGED <<collections, open, lastRet, lastOk, okCount, serial, resp>>
    /\ UNCHANGED storeRest

\* (a build without its drop-and-recreate block)
AfterConnectNoDrop == "load"

\* lines 37-43: with the client connected, the existing collection is looked
\* for, dropped and created anew before anything is loaded
AfterConnect == "exists"

\* line 35: client = weaviate.connect_to_local()
Connect(p) ==
    /\ pc[p] = "connect"
    /\ \E ok \in BOOLEAN :
         IF ok
         THEN /\ open' = [open EXCEPT ![p] = @ + 1]
              /\ pc' = [pc EXCEPT ![p] = AfterConnect]
              /\ UNCHANGED err
         ELSE \* 'client' is not bound: the finally clause closes nothing
              /\ Raise(p, "ConnectError")
              /\ UNCHANGED open
    /\ UNCHANGED <<collections, cname, cinput, cbid, mut, nextBid, lastRet, lastOk, okCount, serial, resp>>
    /\ UNCHANGED storeRest

\* line 38: if client.collections.exists(index_name)
Exists(p) ==
    /\ pc[p] = "exists"
    /\ \E ok \in BOOLEAN :
         IF ok
         THEN /\ pc' = [pc EXCEPT ![p] =
                          IF CollExists(collections, cname[p]) THEN "delete"
                          ELSE "create"]
              /\ UNCHANGED err
         ELSE Raise(p, "StoreError")
    /\ UNCHANGED <<collections, cname, cinput, cbid, open, mut, nextBid,
                   lastRet, lastOk, okCount, serial, resp>>
    /\ UNCHANGED storeRest

\* line 39: client.collections.delete(index_name)
Delete(p) ==
    /\ pc[p] = "delete"
    /\ \E ok \in BOOLEAN :
         IF ok
         THEN /\ collections' = DeleteColl(collections, cname[p])
              /\ mut' = [mut EXCEPT ![p] = TRUE]
              /\ pc' = [pc EXCEPT ![p] = "create"]
              /\ UNCHANGED err
         ELSE /\ Raise(p, "StoreError")
              /\ UNCHANGED <<collections, mut>>
    /\ UNCHANGED <<cname, cinput, cbid, open, nextBid, lastRet, lastOk, okCount, serial,
                   resp>>
    /\ UNCHANGED storeRest

\* line 43: client.collections.create(name=index_name)
Create(p) ==
    /\ pc[p] = "create"
    /\ \E ok \in BOOLEAN :
         IF ok /\ ~CollExists(collections, cname[p])
         THEN /\ collections' = CreateColl(collections, cname[p], cbid[p])
              /\ mut' = [mut EXCEPT ![p] = TRUE]
              /\ pc' = [pc EXCEPT ![p] = "load"]
              /\ UNCHANGED err
         ELSE \* the store is unreachable, or the name is taken again
              /\ Raise(p, IF ok THEN "AlreadyExists" ELSE "StoreError")
              /\ UNCHANGED <<collections, mut>>
    /\ UNCHANGED <<cname, cinput, cbid, open, nextBid, lastRet, lastOk, okCount, serial,
                   resp>>
    /\ UNCHANGED storeRest

\* lines 47-50: load the documents and split them
Load(p) ==
    /\ pc[p] = "load"
    /\ IF LoadError(cinput[p]) = "none"
       THEN /\ pc' = [pc EXCEPT ![p] = "write"]
            /\ UNCHANGED err
       ELSE Raise(p, LoadError(cinput[p]))
    /\ UNCHANGED <<collections, cname, cinput, cbid, open, mut, nextBid,
                   lastRet, lastOk, okCount, serial, resp>>
    /\ UNCHANGED storeRest

\* lines 52-63: embed the nodes and write them; a failure after j nodes
Write(p) ==
    /\ pc[p] = "write"
    /\ \E j \in 0..ChunksPerBuild :
         /\ collections' = WriteNodes(collections, cname[p], cbid[p], j)
         /\ mut' = [mut EXCEPT ![p] = mut[p] \/ collections' # collections]
         /\ IF j = ChunksPerBuild
            THEN /\ pc' = [pc EXCEPT ![p] = "finally"]
                 /\ UNCHANGED err
            ELSE Raise(p, "WriteError")
    /\ UNCHANGED <<cname, cinput, cbid, open, nextBid, lastRet, lastOk, okCount, serial,
                   resp>>
    /\ UNCHANGED storeRest

\* lines 70-73: finally: if 'client' in locals(): client.close()
ClientBound(e) == e # "ConnectError"

Finally(p) ==
    /\ pc[p] = "finally"
    /\ open' = [open EXCEPT ![p] = IF ClientBound(err[p]) THEN @ - 1 ELSE @]
    /\ pc' = [pc EXCEPT ![p] = "idle"]
    /\ Returned(cname[p], cbid[p], err[p])
    /\ Forget(p)
    /\ UNCHANGED <<collections, nextBid, serial, resp>>
    /\ UNCHANGED storeRest

InitSeq == InitStoreVars /\ serial = TRUE /\ InitChat /\ InitLocal /\ InitRetr

NextSeq ==
    \/ \E p \in Procs, n \in Names, inp \in Inputs : CallCreate(p, n, inp)
    \/ \E p \in Procs : Connect(p)
    \/ \E p \in Procs : Exists(p)
    \/ \E p \in Procs : Delete(p)
    \/ \E p \in Procs : Create(p)
    \/ \E p \in Procs : Load(p)
    \/ \E p \in Procs : Write(p)
    \/ \E p \in Procs : Finally(p)

SpecSeq == InitSeq /\ [][NextSeq]_vars

\* ---- delete_document_collection(index_name): no try/finally
CallDelete(p, n) ==
    /\ pc[p] = "idle"
    /\ ~serial
    /\ open[p] < MaxOpen
    /\ pc' = [pc EXCEPT ![p] = "d_connect"]
    /\ cname' = [cname EXCEPT ![p] = n]
    /\ cbid' = [cbid EXCEPT ![p] = 0]
    /\ mut' = [mut EXCEPT ![p] = FALSE]
    /\ err' = [err EXCEPT ![p] = "none"]
    /\ UNCHANGED <<collections, cinput, open, nextBid, lastRet, lastOk, okCount, serial,
                   resp>>
    /\ UNCHANGED storeRest

\* line 78: client = weaviate.connect_to_local()
DConnect(p) ==
    /\ pc[p] = "d_connect"
    /\ \E ok \in BOOLEAN :
         IF ok
         THEN /\ open' = [open EXCEPT ![p] = @ + 1]
              /\ pc' = [pc EXCEPT ![p] = "d_delete"]
              /\ UNCHANGED <<cname, cinput, cbid, mut, err>>
         ELSE \* the exception leaves the function: nothing was opened
              /\ pc' = [pc EXCEPT ![p] = "idle"]
              /\ Forget(p)
              /\ UNCHANGED open
    /\ UNCHANGED <<collections, nextBid, lastRet, lastOk, okCount, serial, resp>>
    /\ UNCHANGED storeRest

\* line 81: client.collections.delete(index_name)
DDelete(p) ==
    /\ pc[p] = "d_delete"
    /\ \E ok \in BOOLEAN :
         IF ok
         THEN /\ collections' = DeleteColl(collections, cname[p])
              /\ pc' = [pc EXCEPT ![p] = "d_close"]
              /\ UNCHANGED <<cname, cinput, cbid, mut, err>>
         ELSE \* the exception leaves the function before line 85
              /\ pc' = [pc EXCEPT ![p] = "idle"]
              /\ Forget(p)
              /\ UNCHANGED collections
    /\ UNCHANGED <<open, nextBid, lastRet, lastOk, okCount, serial, resp>>
    /\ UNCHANGED storeRest

\* line 85: client.close()
DClose(p) ==
    /\ pc[p] = "d_close"
    /\ open' = [open EXCEPT ![p] = @ - 1]
    /\ pc' = [pc EXCEPT ![p] = "idle"]
    /\ Forget(p)
    /\ UNCHANGED <<collections, nextBid, lastRet, lastOk, okCount, serial, resp>>
    /\ UNCHANGED storeRest

\* ---- POST /build-index
Paths == {"dir", "dir_empty", "dir_invalid", "list", "list_missing", "list_empty"}
IndexTypes == {"basic", "automerging", "sentence_window", "invalid"}
\* where a run of the builder fails: nowhere, before it touches the store, at
\* the create, or in the write after j nodes
FailPoints == {<<"none", 0>>, <<"early", 0>>, <<"create", 0>>}
                \cup {<<"write", j>> : j \in 0..(ChunksPerBuild - 1)}

\* lines 137-145: a str is scanned as a directory, a list is used as it is.
\* "raise": the directory scan raised; otherwise the kind of file list.
ResolveInput(path) ==
    CASE path = "dir_invalid"  -> "raise"
      [] path \in {"dir_empty", "list_empty"} -> "empty"
      [] path = "list_missing" -> "missing"
      [] OTHER -> "files"

\* build_basic_fixed_size_index(input_files, index_name, chunk_size,
\* chunk_overlap): a whole run of the drop / create / load / write pipeline
\* that fails at f (a write after j nodes) or not at all.
build_basic_fixed_size_index(colls, n, b, inp, f, j) ==
    IF f = "early" THEN colls
    ELSE LET c1 == DeleteColl(colls, n) IN
         IF f = "create" THEN c1
         ELSE LET c2 == CreateColl(c1, n, b) IN
              IF LoadError(inp) # "none" THEN c2
              ELSE WriteNodes(c2, n, b, IF f = "write" THEN j ELSE ChunksPerBuild)

BasicError(inp, f) ==
    CASE f \in {"early", "create"} -> "StoreError"
      [] LoadError(inp) # "none"   -> LoadError(inp)
      [] f = "write"               -> "WriteError"
      [] OTHER                     -> "none"

\* (a dispatch without its final else: an unknown type falls through)
BuildIndexErrorNoElse(fl, itype, berr) ==
    CASE fl = "raise"                -> "InvalidDirectory"
      [] fl = "empty"                -> "NoValidInputFiles"
      [] itype = "basic"             -> berr
      [] itype \in {"automerging", "sentence_window"} -> "TypeError"
      [] OTHER                       -> "none"

\* lines 147-170: the exception the handler body raises ("none": it returns)
\* for the resolved file list fl, the index type and the builder's own error.
BuildIndexError(fl, itype, berr) ==
    CASE fl = "raise"                -> "InvalidDirectory"
      [] fl = "empty"                -> "NoValidInputFiles"
      [] itype = "basic"             -> berr
      \* the builders of indexing.py take (documents, llm, ...): the keyword
      \* arguments input_files / index_name do not bind
      [] itype \in {"automerging", "sentence_window"} -> "TypeError"
      [] OTHER                       -> "InvalidIndexType"

\* lines 151-168: the builder the handler calls, "none" when it calls none
BuilderCalled(fl, itype) ==
    IF fl \in {"raise", "empty"} \/ itype \notin {"basic", "automerging", "sentence_window"}
    THEN "none" ELSE itype

\* lines 172-179: every exception becomes HTTPException(500, detail=str(e))
StatusOf(e) == IF e = "none" THEN 200 ELSE 500

BuildIndexApi(path, n, itype, fp) ==
    /\ ~serial
    /\ BuilderCalled(ResolveInput(path), itype) = "basic" => nextBid <= MaxBuilds
    /\ LET fl   == ResolveInput(path)
           b    == BuilderCalled(fl, itype)
           f    == fp[1]
           j    == fp[2]
           berr == BasicError(fl, f)
           e    == BuildIndexError(fl, itype, berr)
       IN /\ collections' = IF b = "basic"
                            THEN build_basic_fixed_size_index(collections, n, nextBid, fl, f, j)
                            ELSE collections
          /\ nextBid' = IF b = "basic" THEN nextBid + 1 ELSE nextBid
          /\ resp' = [endpoint |-> "build-index", status |-> StatusOf(e),
                      detail |-> e, itype |-> itype, files |-> fl, builder |-> b,
                      mutated |-> collections' # collections, names |-> {}]
          /\ IF b = "basic" THEN Returned(n, nextBid, e)
             ELSE UNCHANGED <<lastRet, lastOk, okCount>>
    /\ UNCHANGED <<pc, cname, cinput, cbid, open, mut, err, serial>>
    /\ UNCHANGED storeRest

\* ---- POST /get-index-names
GetIndexNamesApi ==
    /\ ~serial
    /\ \E ok \in BOOLEAN :
         resp' = [NoResp EXCEPT !.endpoint = "get-index-names",
                    !.status = StatusOf(IF ok THEN "none" ELSE "StoreError"),
                    !.detail = IF ok THEN "none" ELSE "StoreError",
                    !.names = IF ok THEN {n \in Names : collections[n].exists}
                              ELSE {}]
    /\ UNCHANGED <<collections, pc, cname, cinput, cbid, open, mut, err,
                   nextBid, lastRet, lastOk, okCount, serial>>
    /\ UNCHANGED storeRest

InitStore == InitStoreVars /\ serial = FALSE /\ InitChat /\ InitLocal /\ InitRetr

NextStore ==
    \/ NextSeq
    \/ \E p \in Procs, n \in Names : CallDelete(p, n)
    \/ \E p \in Procs : DConnect(p)
    \/ \E p \in Procs : DDelete(p)
    \/ \E p \in Procs : DClose(p)

\* create_document_index calls of concurrent callers, and nothing else
SpecRace == InitStore /\ [][NextSeq]_vars

\* the endpoints alone: the handlers are async functions that never await, so
\* the event loop runs each request to its end before the next one
NextApi ==
    \/ \E path \in Paths, n \in Names, itype \in IndexTypes, fp \in FailPoints :
         BuildIndexApi(path, n, itype, fp)
    \/ GetIndexNamesApi

SpecApi == InitStore /\ [][NextApi]_vars

SpecStore == InitStore /\ [][NextStore]_vars

\* ========================================================= /query and /chat
Reqs == {1, 2}                      \* the requests of a behaviour
Kinds == {"query", "chat"}
Questions == {"q1", "q2"}
Dirs == {"records", "nodir"}        \* chat_record_dir: a directory, no directory
Frags == {<<"a">>, <<"b", "c">>}    \* chunk.content values, as character lists

RECURSIVE Flatten(_)
Flatten(ss) == IF ss = <<>> THEN <<>> ELSE Head(ss) \o Flatten(Tail(ss))

Front(ss) == SubSeq(ss, 1, Len(ss) - 1)

\* get_chat_file_name(question) (src.utils): the sanitized question fragment,
\* a function of the question alone
get_chat_file_name(q) == <<"name", q>>

\* lines 65 and 109: f"{get_timestamp()}RAG-{...}" / f"{get_timestamp()}Chat-{...}"
FileName(ts, kind, q) ==
    <<ts, IF kind = "query" THEN "RAG-" ELSE "Chat-", get_chat_file_name(q)>>

\* lines 66-69 and 110-113: os.path.join(chat_record_dir, f"{file_name}.md")
ChatRecordFile(dir, fname) == <<dir, fname, ".md">>

\* (an accumulator that keeps only the latest chunk)
AccumulateLast(full, c) == c

\* lines 94 and 121: full_response += chunk.content
Accumulate(full, c) == full \o c

\* lines 98 and 125: the text written; [source_datas] only for /query
RecordText(kind, fname, q, full, sources) ==
    [fname |-> fname, question |-> q, answer |-> full,
     sources |-> IF kind = "query" THEN sources ELSE "none"]

\* lines 97 and 124: open(chat_record_file, 'w') creates or TRUNCATES the file
OpenWrite(fs, path, r, text) ==
    {f \in fs : f.path # path} \cup {[path |-> path, writer |-> r, text |-> text]}

NoReq == [pc |-> "idle", kind |-> "chat", q |-> "q1", dir |-> "records",
          fname |-> <<>>, status |-> 0, sent |-> <<>>, full |-> <<>>,
          sources |-> "none", writes |-> 0, wrote |-> <<>>]

PathOf(r) == ChatRecordFile(rq[r].dir, rq[r].fname)

InitChatSpec ==
    /\ clock = 0
    /\ rq = [r \in Reqs |-> NoReq]
    /\ files = {}
    /\ InitStoreVars /\ serial = FALSE /\ InitLocal /\ InitRetr

\* time passes between two reads of get_timestamp()
Tick ==
    /\ clock < MaxClock
    /\ clock' = clock + 1
    /\ UNCHANGED <<rq, files>>
    /\ UNCHANGED chatRest

\* lines 63-70 / 107-114 and 100-103 / 127-130: the handler computes the file
\* name, builds the generator WITHOUT running it and returns the streaming
\* response (status 200); only an exception of these lines reaches the except
\* clause and becomes a 500.
Handler(r, kind, q, dir) ==
    /\ rq[r].pc = "idle"
    /\ \E ok \in BOOLEAN :
         rq' = [rq EXCEPT ![r] =
                  IF ok
                  THEN [NoReq EXCEPT !.pc = IF kind = "query" THEN "retrieve" ELSE "stream",
                                     !.kind = kind, !.q = q, !.dir = dir,
                                     !.fname = FileName(clock, kind, q),
                                     !.status = StatusOf("none")]
                  ELSE [NoReq EXCEPT !.pc = "http500", !.kind = kind, !.q = q,
                                     !.dir = dir, !.status = StatusOf("UtilsError")]]
    /\ UNCHANGED <<clock, files>>
    /\ UNCHANGED chatRest

\* lines 73-82 (/query): retrieval runs inside the generator, after the
\* response has started; an unknown index name raises there.
Retrieve(r) ==
    /\ rq[r].pc = "retrieve"
    /\ \E ok \in BOOLEAN :
         rq' = [rq EXCEPT ![r] =
                  IF ok THEN [@ EXCEPT !.pc = "stream", !.sources = "nodes"]
                  ELSE [@ EXCEPT !.pc = "aborted"]]
    /\ UNCHANGED <<clock, files>>
    /\ UNCHANGED chatRest

\* lines 92-93 / 119-120: the model yields a chunk and the generator yields
\* its content to the caller, and is suspended there
YieldChunk(r, c) ==
    /\ rq[r].pc = "stream"
    /\ Len(rq[r].sent) < MaxFrags
    /\ rq' = [rq EXCEPT ![r] = [@ EXCEPT !.pc = "yielded",
                                         !.sent = Append(@, c)]]
    /\ UNCHANGED <<clock, files>>
    /\ UNCHANGED chatRest

\* lines 94 / 121: resumed, the generator accumulates the chunk
Resume(r) ==
    /\ rq[r].pc = "yielded"
    /\ rq' = [rq EXCEPT ![r] =
                [@ EXCEPT !.pc = "stream",
                          !.full = Accumulate(@, rq[r].sent[Len(rq[r].sent)])]]
    /\ UNCHANGED <<clock, files>>
    /\ UNCHANGED chatRest

\* the model call raises (line 90 is lazy: the failure shows in the loop)
StreamFail(r) ==
    /\ rq[r].pc = "stream"
    /\ rq' = [rq EXCEPT ![r] = [@ EXCEPT !.pc = "aborted"]]
    /\ UNCHANGED <<clock, files>>
    /\ UNCHANGED chatRest

\* the caller goes away: the suspended generator is closed at its yield
Disconnect(r) ==
    /\ rq[r].pc = "yielded"
    /\ rq' = [rq EXCEPT ![r] = [@ EXCEPT !.pc = "cancelled"]]
    /\ UNCHANGED <<clock, files>>
    /\ UNCHANGED chatRest

\* the model's stream is exhausted: the for loop ends
StreamEnd(r) ==
    /\ rq[r].pc = "stream"
    /\ rq' = [rq EXCEPT ![r] = [@ EXCEPT !.pc = "write"]]
    /\ UNCHANGED <<clock, files>>
    /\ UNCHANGED chatRest

\* lines 97-98 / 124-125: with open(chat_record_file, 'w') as f: f.write(...)
WriteFile(r) ==
    /\ rq[r].pc = "write"
    /\ IF rq[r].dir = "nodir"
       THEN \* open raises FileNotFoundError inside the generator
            /\ rq' = [rq EXCEPT ![r] = [@ EXCEPT !.pc = "aborted"]]
            /\ UNCHANGED files
       ELSE LET text == RecordText(rq[r].kind, rq[r].fname, rq[r].q,
                                   rq[r].full, rq[r].sources)
            IN /\ files' = OpenWrite(files, PathOf(r), r, text)
               /\ rq' = [rq EXCEPT ![r] = [@ EXCEPT !.pc = "done",
                                                    !.writes = @ + 1,
                                                    !.wrote = <<text>>]]
    /\ UNCHANGED clock
    /\ UNCHANGED chatRest

NextChat ==
    \/ Tick
    \/ \E r \in Reqs, kind \in Kinds, q \in Questions, dir \in Dirs :
         Handler(r, kind, q, dir)
    \/ \E r \in Reqs : Retrieve(r)
    \/ \E r \in Reqs, c \in Frags : YieldChunk(r, c)
    \/ \E r \in Reqs : Resume(r)
    \/ \E r \in Reqs : StreamFail(r)
    \/ \E r \in Reqs : Disconnect(r)
    \/ \E r \in Reqs : StreamEnd(r)
    \/ \E r \in Reqs : WriteFile(r)

SpecChat == InitChatSpec /\ [][NextChat]_vars

\* ================================================= locally persisted indexes
SaveDirs == {"sentence_index", "merging_index"}
Docs == {"d1", "d2"}

NoDir   == [exists |-> FALSE, index |-> <<>>]
JunkDir == [exists |-> TRUE, index |-> <<>>]    \* a directory holding no index
NoCall  == [fn |-> "none", dir |-> "sentence_index", passed |-> {},
            existed |-> FALSE, before |-> <<>>, raised |-> FALSE, ret |-> <<>>]

\* lines 93-106: VectorStoreIndex.from_documents([document]) with the sentence
\* window parser; lines 141-155: VectorStoreIndex(leaf_nodes) of the documents
NewIndex(kind, docs) == [kind |-> kind, docs |-> docs]

\* (a builder that always builds from the documents it is given)
IndexToReturnFresh(existed, stored, fresh) == <<fresh>>

\* lines 103-112 and 152-161: if not os.path.exists(save_dir) the index is
\* built and persisted, else it is loaded from save_dir; <<>>: the load raises
IndexToReturn(existed, stored, fresh) ==
    IF ~existed THEN <<fresh>> ELSE stored

\* lines 107 and 156: persist(persist_dir=save_dir), only on the build branch
DirAfter(existed, dir, ret) ==
    IF ~existed THEN [exists |-> TRUE, index |-> ret] ELSE dir

BuildLocal(fn, kind, docs, sd) ==
    LET existed == dirs[sd].exists
        ret     == IndexToReturn(existed, dirs[sd].index, NewIndex(kind, docs))
    IN /\ dirs' = [dirs EXCEPT ![sd] = DirAfter(existed, dirs[sd], ret)]
       /\ last' = [fn |-> fn, dir |-> sd, passed |-> docs, existed |-> existed,
                   before |-> dirs[sd].index, raised |-> ret = <<>>, ret |-> ret]

\* build_sentence_window_index(document, llm, embed_model, save_dir)
build_sentence_window_index(d, sd) ==
    /\ BuildLocal("build_sentence_window_index", "sentence_window", {d}, sd)
    /\ UNCHANGED localRest

\* build_automerging_index(documents, llm, embed_model, save_dir, chunk_sizes)
build_automerging_index(ds, sd) ==
    /\ BuildLocal("build_automerging_index", "automerging", ds, sd)
    /\ UNCHANGED localRest

InitLocalSpec ==
    /\ dirs \in [SaveDirs -> {NoDir, JunkDir}]
    /\ last = NoCall
    /\ InitStoreVars /\ serial = FALSE /\ InitChat /\ InitRetr

NextLocal ==
    \/ \E d \in Docs, sd \in SaveDirs : build_sentence_window_index(d, sd)
    \/ \E ds \in SUBSET Docs, sd \in SaveDirs : build_automerging_index(ds, sd)

SpecLocal == InitLocalSpec /\ [][NextLocal]_vars

\* ================================================================ retrieval
\* The hierarchy HierarchicalNodeParser builds (chunk_sizes has three levels):
\* leaves 1 2 3 under parent 6, leaves 4 5 under parent 7, 6 and 7 under the
\* root 8. The vector index holds the leaves; the docstore holds all nodes.
\* The sentence-window index holds the same five leaves, one per sentence.
Leaves == {1, 2, 3, 4, 5}
Nodes == Leaves \cup {6, 7, 8}
Parent == <<6, 6, 6, 7, 7, 8, 8, 0>>
NextNode == <<2, 3, 0, 5, 0, 7, 0, 0>>     \* next sibling, 0: none
PrevNode == <<0, 1, 2, 0, 4, 0, 6, 0>>     \* previous sibling, 0: none
ChildrenOf(p) == {c \in Nodes : Parent[c] = p}
RerankScores == {0, 1}                       \* what the cross-encoder may say
Engines == {"automerging", "sentence_window"}

rerank_top_n == 2

Min(a, b) == IF a <= b THEN a ELSE b

\* list.sort(reverse=True) / sorted(key=-score): a stable sort, highest first
RECURSIVE InsertDesc(_, _)
InsertDesc(x, ss) ==
    IF ss = <<>> THEN <<x>>
    ELSE IF Head(ss).score >= x.score THEN <<Head(ss)>> \o InsertDesc(x, Tail(ss))
         ELSE <<x>> \o ss

RECURSIVE SortDesc(_)
SortDesc(ss) ==
    IF ss = <<>> THEN <<>>
    ELSE InsertDesc(ss[Len(ss)], SortDesc(SubSeq(ss, 1, Len(ss) - 1)))

Item(id, score) == [id |-> id, score |-> score, text |-> "chunk"]

\* (a retriever asked for one neighbour too many)
RetrieveTopKPlusOne(sim, k) ==
    SubSeq(SortDesc([i \in 1..5 |-> Item(i, sim[i])]), 1, Min(k + 1, 5))

\* index.as_retriever(similarity_top_k=k).retrieve(): the k nearest leaves,
\* nearest first (equal scores in document order)
RetrieveTopK(sim, k) ==
    SubSeq(SortDesc([i \in 1..5 |-> Item(i, sim[i])]), 1, Min(k, 5))

RECURSIVE SumScores(_)
SumScores(ss) == IF ss = <<>> THEN 0 ELSE Head(ss).score + SumScores(Tail(ss))

\* AutoMergingRetriever._fill_in_nodes: between two neighbours of the list
\* that are one node apart in the document, the node between them is added
\* with the mean of their scores (scores are integers: a mean is rounded down)
RECURSIVE FillIn(_)
FillIn(ss) ==
    IF Len(ss) <= 1 THEN ss
    ELSE LET cur == ss[1]
             nxt == ss[2]
             mid == NextNode[cur.id]
         IN IF mid # 0 /\ mid = PrevNode[nxt.id]
            THEN <<cur, Item(mid, (cur.score + nxt.score) \div 2)>> \o FillIn(Tail(ss))
            ELSE <<cur>> \o FillIn(Tail(ss))

\* AutoMergingRetriever._get_parents_and_merge: a parent more than half of
\* whose children are in the list replaces them, with the mean of their scores
MergedParents(ss) ==
    {p \in Nodes :
       LET mine == SelectSeq(ss, LAMBDA x : Parent[x.id] = p)
       IN Len(mine) > 0 /\ 2 * Len(mine) > Cardinality(ChildrenOf(p))}

RECURSIVE SetToSeq(_)
SetToSeq(S) ==
    IF S = {} THEN <<>>
    ELSE LET x == CHOOSE y \in S : \A z \in S : y <= z
         IN <<x>> \o SetToSeq(S \ {x})

MergeParents(ss) ==
    LET ps   == MergedParents(ss)
        kept == SelectSeq(ss, LAMBDA x : Parent[x.id] \notin ps)
        pseq == SetToSeq(ps)
        new  == [i \in 1..Len(pseq) |->
                   LET mine == SelectSeq(ss, LAMBDA x : Parent[x.id] = pseq[i])
                   IN Item(pseq[i], SumScores(mine) \div Len(mine))]
    IN kept \o new

\* AutoMergingRetriever._retrieve: fill in and merge until nothing changes
\* (the hierarchy has three levels: at most three rounds change anything),
\* then sort by score
RECURSIVE TryMerging(_, _)
TryMerging(ss, rounds) ==
    LET next == MergeParents(FillIn(ss))
    IN IF next = ss \/ rounds = 0 THEN next ELSE TryMerging(next, rounds - 1)

AutoMerge(ss) == SortDesc(TryMerging(ss, Cardinality(Nodes)))

\* MetadataReplacementPostProcessor(target_metadata_key="window"): each
\* node's text becomes its window; the list and the scores stay
ReplaceWithWindow(ss) == [i \in 1..Len(ss) |-> [ss[i] EXCEPT !.text = "window"]]

\* SentenceTransformerRerank(top_n): every node is given the cross-encoder's
\* score, the list is sorted by it, highest first, and cut to top_n
Rerank(ss, rr, n) ==
    SubSeq(SortDesc([i \in 1..Len(ss) |-> [ss[i] EXCEPT !.score = rr[ss[i].id]]]),
           1, Min(n, Len(ss)))

\* get_automerging_query_engine(index, similarity_top_k, rerank_top_n)
get_automerging_query_engine(sim, rr, k) ==
    Rerank(AutoMerge(RetrieveTopK(sim, k)), rr, rerank_top_n)

\* get_sentence_window_query_engine(index, similarity_top_k, rerank_top_n)
get_sentence_window_query_engine(sim, rr, k) ==
    Rerank(ReplaceWithWindow(RetrieveTopK(sim, k)), rr, rerank_top_n)

InitRetrSpec ==
    /\ rin \in [engine : Engines, k : 1..MaxK,
                sim : [Leaves -> 0..MaxScore], rr : [Nodes -> RerankScores]]
    /\ rout = [done |-> FALSE, nodes |-> <<>>]
    /\ InitStoreVars /\ serial = FALSE /\ InitChat /\ InitLocal

QueryAutoMerging ==
    /\ ~rout.done
    /\ rin.engine = "automerging"
    /\ rout' = [done |-> TRUE,
                nodes |-> get_automerging_query_engine(rin.sim, rin.rr, rin.k)]
    /\ UNCHANGED rin
    /\ UNCHANGED retrRest

QuerySentenceWindow ==
    /\ ~rout.done
    /\ rin.engine = "sentence_window"
    /\ rout' = [done |-> TRUE,
                nodes |-> get_sentence_window_query_engine(rin.sim, rin.rr, rin.k)]
    /\ UNCHANGED rin
    /\ UNCHANGED retrRest

NextRetr == QueryAutoMerging \/ QuerySentenceWindow

SpecRetr == InitRetrSpec /\ [][NextRetr]_vars

\* ================================================================ claims
BidsIn(n) == {c[1] : c \in collections[n].chunks}

\* C1 (as stated): after sequential create_document_index calls, every name
\* that was built at least once has its collection, and the collection holds
\* no chunk of a build older than the name's most recent build.
C1_Original ==
    StoreIdle =>
      \A n \in Names :
        okCount[n] > 0 =>
          /\ collections[n].exists
          /\ \A b \in BidsIn(n) : b >= lastOk[n]

\* C1 (amended): after sequential create_document_index calls, a name whose
\* most recent call returned normally has its collection, holding exactly the
\* chunks of that call; whatever the calls' outcomes, a collection holds
\* chunks of one build only, none older than the name's last build that
\* returned normally, and an absent collection holds nothing.
C1_Amended ==
    StoreIdle =>
      \A n \in Names :
        /\ lastRet[n].ok =>
             /\ collections[n].exists
             /\ collections[n].chunks = NodesOf(lastRet[n].bid)
        /\ Cardinality(BidsIn(n)) <= 1
        /\ \A b \in BidsIn(n) : b >= lastOk[n]
        /\ ~collections[n].exists => collections[n].chunks = {}

\* a name rebuilt: two builds of it returned, the collection holds the second
C1_Witness ==
    /\ StoreIdle
    /\ \E n \in Names :
         /\ okCount[n] >= 2
         /\ lastRet[n].ok
         /\ collections[n].chunks = NodesOf(lastRet[n].bid)

\* C2 (as stated): a create_document_index call with an empty input_files
\* list raises its validation error before it has deleted, created or written
\* any collection.
C2_Claim ==
    \A p \in Procs :
      (pc[p] = "finally" /\ cinput[p] = "empty" /\ err[p] = "EmptyInput")
        => ~mut[p]

\* C3 (as stated): no call of create_document_index or
\* delete_document_collection leaves the client it opened unclosed when it
\* has ended.
C3_Claim == \A p \in Procs : pc[p] = "idle" => open[p] = 0

\* C4 (as stated): a request whose internal step failed is answered 500; for
\* /query and /chat that includes a failure of retrieval, of the model call or
\* of the transcript write inside the generator.
C4_Claim ==
    \A r \in Reqs : rq[r].pc \in {"aborted", "http500"} => rq[r].status = 500

\* C5 (as stated): a /build-index request with an index_type other than
\* basic, automerging, sentence_window is answered 500 with a detail naming
\* the invalid type, calls no builder and mutates no collection, whatever its
\* other fields are.
C5_Original ==
    (resp.endpoint = "build-index" /\ resp.itype = "invalid") =>
      /\ resp.status = 500
      /\ resp.detail = "InvalidIndexType"
      /\ resp.builder = "none"
      /\ ~resp.mutated

\* C5 (amended): such a request is answered 500, calls no builder and mutates
\* no collection; the detail names the invalid type when the input resolves
\* to a non-empty file list, and is the input error (invalid directory, no
\* valid input files) otherwise, because the input is checked first.
C5_Amended ==
    (resp.endpoint = "build-index" /\ resp.itype = "invalid") =>
      /\ resp.status = 500
      /\ resp.builder = "none"
      /\ ~resp.mutated
      /\ resp.files = "raise" => resp.detail = "InvalidDirectory"
      /\ resp.files = "empty" => resp.detail = "NoValidInputFiles"
      /\ resp.files \in {"files", "missing"} => resp.detail = "InvalidIndexType"

C5_Witness ==
    /\ resp.endpoint = "build-index"
    /\ resp.itype = "invalid"
    /\ resp.files = "files"
    /\ resp.detail = "InvalidIndexType"
    /\ \E n \in Names : collections[n].exists

\* C6: a request writes its transcript at most once, and exactly once when it
\* ends normally; the write comes after the last fragment was forwarded and
\* accumulated, the answer written is the concatenation of the fragments
\* forwarded, a request that failed or was cut writes nothing, and every
\* fragment is forwarded before it is accumulated.
C6_Transcript ==
    \A r \in Reqs :
      LET q == rq[r] IN
        /\ q.writes <= 1
        /\ q.writes = 1 <=> q.pc = "done"
        /\ q.pc = "done" =>
             /\ q.wrote[1].answer = Flatten(q.sent)
             /\ q.wrote[1].question = q.q
             /\ (q.wrote[1].sources # "none") <=> (q.kind = "query")
             /\ \E f \in files : f.path = PathOf(r)
        /\ q.pc = "yielded" =>
             /\ q.sent # <<>>
             /\ q.full = Flatten(Front(q.sent))
        /\ q.pc \in {"stream", "write"} => q.full = Flatten(q.sent)
        /\ q.pc \in {"aborted", "cancelled", "http500"} =>
             \A f \in files : f.writer # r

\* a request that streamed two fragments and wrote them
C6_Witness ==
    \E r \in Reqs :
      /\ rq[r].pc = "done"
      /\ Len(rq[r].sent) = 2
      /\ rq[r].sent[1] # rq[r].sent[2]
      /\ \E f \in files : f.writer = r /\ f.text.answer = Flatten(rq[r].sent)

AllBuildsReturned == okCount["Docs"] + okCount["Notes"] = nextBid - 1

\* C9 (as stated): when create_document_index calls of one name interleave
\* and all return normally, the name's collection is there when they have
\* ended, and it holds chunks of one build only, the build that created it.
C9_Claim ==
    (StoreIdle /\ AllBuildsReturned) =>
      \A n \in Names :
        okCount[n] > 0 =>
          /\ collections[n].exists
          /\ Cardinality(BidsIn(n)) <= 1
          /\ \A b \in BidsIn(n) : b = collections[n].creator

\* C10 (as stated): every request that has ended normally has its own
\* transcript file: no later write has replaced what it wrote.
C10_Claim ==
    \A r \in Reqs :
      rq[r].pc = "done" =>
        \E f \in files : f.path = PathOf(r) /\ f.writer = r

====
